---- MODULE Spec2Model ----
(***************************************************************************)
(* The pptx -> pdf pipeline of main.py: App.run() creates the destination  *)
(* root, PDFConverter.convert() walks the source tree, mirrors every       *)
(* directory and shells out to the converter for every *.pptx file, and    *)
(* PDFProtector.protect() then encrypts every recorded PDF in place.       *)
(*                                                                         *)
(* A file name is a sequence of one-character strings, a directory is a    *)
(* sequence of directory names relative to its root (<<>> is the root),    *)
(* and a path built by the program is a sequence of components that may    *)
(* still hold "." (os.path.join does not normalise).  The external         *)
(* converter and the PDF library are the environment: their outcomes are   *)
(* chosen nondeterministically.  The converter is taken to write its       *)
(* output at the path the program checks, the configuration is taken to    *)
(* hold its three keys, the source tree is readable and disjoint from the  *)
(* destination tree, and directory creation succeeds.                      *)
(***************************************************************************)
EXTENDS Integers, Sequences, FiniteSets, TLC

VARIABLES
    tree,             \* source tree: directory |-> [dirs, files] in listing order
    owner_password,   \* PDFProtector.owner_password
    plan,             \* the outcomes the converter can have, per source file
    destDirs,         \* directories existing under the destination root
    destFiles,        \* destination files on disk: path |-> content
    pc,               \* "start", "walk", "files", "protect", "exited"
    stack,            \* os.walk: directories still to visit
    root,             \* convert(): the directory being visited
    files,            \* convert(): the files of root not yet looked at
    converted_files,  \* convert(): the result list
    idx,              \* run(): position of the protection loop
    exitStatus,       \* -1 while the process runs, then its exit status
    convLog,          \* history: one record per _convert_file call
    protLog,          \* history: one record per protect call
    afterConvert,     \* history: destFiles when convert() returned
    run,              \* number of the current process invocation
    firstRun          \* history: destination tree when the first run ended

vars == <<tree, owner_password, plan, destDirs, destFiles, pc, stack, root,
          files, converted_files, idx, exitStatus, convLog, protLog,
          afterConvert, run, firstRun>>

(* ------------------------------ bounds -------------------------------- *)

MaxFiles == 2
MaxRuns == 2

(* ------------------------------ strings ------------------------------- *)

PPTX == <<".", "p", "p", "t", "x">>
PDF == <<".", "p", "d", "f">>

\* str.endswith
EndsWith(s, suffix) ==
    /\ Len(s) >= Len(suffix)
    /\ SubSeq(s, Len(s) - Len(suffix) + 1, Len(s)) = suffix

\* index of the last "." of a name, 0 if there is none (str.rfind)
LastDot(s) ==
    LET dots == {i \in 1..Len(s) : s[i] = "."}
    IN  IF dots = {} THEN 0 ELSE CHOOSE i \in dots : \A j \in dots : j <= i

\* os.path.splitext on a name without separators: the extension starts at
\* the last dot, unless only dots precede it (leading dots are no extension)
SplitExt(s) ==
    LET d == LastDot(s)
    IN  IF d > 0 /\ \E j \in 1..(d - 1) : s[j] # "."
        THEN <<SubSeq(s, 1, d - 1), SubSeq(s, d, Len(s))>>
        ELSE <<s, <<>>>>

\* file.endswith(".pptx")
IsPptx(file) == EndsWith(file, PPTX)

\* os.path.splitext(file)[0] + '.pdf'
TargetFilePdf(file) == SplitExt(file)[1] \o PDF

(* ------------------------------- paths -------------------------------- *)

DistDir == <<"dist">>

\* os.path.relpath(root, self.source_dir)
RelPath(dir) == IF dir = <<>> THEN <<".">> ELSE dir

\* (a variant that puts every output directly under the destination root)
TargetDirFlat(dir) == DistDir

\* os.path.join(self.dist_dir, relative_path)
TargetDir(dir) == DistDir \o RelPath(dir)

\* what the file system makes of a directory path: "." components vanish
RECURSIVE Resolve(_)
Resolve(p) ==
    IF p = <<>> THEN <<>>
    ELSE IF Head(p) = "." THEN Resolve(Tail(p))
    ELSE <<Head(p)>> \o Resolve(Tail(p))

\* the file on disk a path names
OnDisk(path) == [dir |-> Resolve(path.dir), name |-> path.name]

\* (a variant that avoids a name already taken in the target directory)
TargetFileUnique(dir, file) ==
    LET path == [dir |-> TargetDir(dir), name |-> TargetFilePdf(file)]
    IN  IF OnDisk(path) \in DOMAIN destFiles
        THEN [path EXCEPT !.name = <<"1">> \o @]
        ELSE path

\* os.path.join(target_dir, target_file_pdf)
TargetFile(dir, file) == [dir |-> TargetDir(dir), name |-> TargetFilePdf(file)]

\* os.makedirs(p, exist_ok=True): p and all its ancestors
MakeDirs(dirs, p) == dirs \cup {Resolve(SubSeq(p, 1, n)) : n \in 1..Len(p)}

\* Path(target_file).is_file(), asked of the disk as it is then
IsFile(disk, path) == OnDisk(path) \in DOMAIN disk

(* ---------------------------- PDF contents ---------------------------- *)

\* the fields of pikepdf.Permissions, all granted by default
Permissions ==
    {"accessibility", "extract", "modify_annotation", "modify_assembly",
     "modify_form", "modify_other", "print_highres", "print_lowres"}

\* the keyword arguments protect() passes as False
Denied ==
    {"extract", "modify_annotation", "modify_assembly", "modify_form",
     "modify_other", "print_highres", "print_lowres"}

\* a PDF as the converter writes it
Plain ==
    [valid |-> TRUE, encrypted |-> FALSE, owner |-> "", user |-> "",
     allow |-> Permissions]

\* what a failed save may leave behind
Damaged ==
    [valid |-> FALSE, encrypted |-> FALSE, owner |-> "", user |-> "",
     allow |-> {}]

\* (a variant that leaves low-resolution printing granted)
EncryptionPrintable(owner) ==
    [valid |-> TRUE, encrypted |-> TRUE, owner |-> owner, user |-> "",
     allow |-> (Permissions \ Denied) \cup {"print_lowres"}]

\* pikepdf.Encryption(owner=..., allow=pikepdf.Permissions(...)): the user
\* password keeps its default, the empty string
Encryption(owner) ==
    [valid |-> TRUE, encrypted |-> TRUE, owner |-> owner, user |-> "",
     allow |-> Permissions \ Denied]

(* ------------------------- the source tree ---------------------------- *)

PlainName == <<"a">> \o PPTX
BareName == PPTX
DoubleName == PPTX \o PPTX
TextName == <<"n", ".", "t", "x", "t">>

FileNames == {PlainName, BareName, DoubleName, TextName}

DirNames == {"a", "b"}

Shapes ==
    { {<<>>},
      {<<>>, <<"a">>},
      {<<>>, <<"a">>, <<"a", "b">>},
      {<<>>, <<"a">>, <<"b">>} }

\* the sequences that list every element of S once
Orderings(S) ==
    {s \in [1..Cardinality(S) -> S] : \A i, j \in DOMAIN s : s[i] = s[j] => i = j}

\* the listings a directory of at most n files can have
Listings(n) == UNION {Orderings(F) : F \in {G \in SUBSET FileNames : Cardinality(G) <= n}}

RECURSIVE CountFiles(_, _)
CountFiles(f, S) ==
    IF S = {} THEN 0
    ELSE LET d == CHOOSE e \in S : TRUE
         IN  Len(f[d]) + CountFiles(f, S \ {d})

\* the subdirectories of d in shape S, in the order ord lists their names
SubDirs(S, d, ord) ==
    SelectSeq(ord, LAMBDA n : Append(d, n) \in S)

\* the trees of shape S: every directory's listing, at most MaxFiles files in all
TreesOf(S) ==
    { [d \in S |-> [dirs |-> SubDirs(S, d, ord), files |-> f[d]]] :
        ord \in Orderings(DirNames),
        f \in {g \in [S -> Listings(MaxFiles)] : CountFiles(g, S) <= MaxFiles} }

Trees == UNION {TreesOf(S) : S \in Shapes}

Range(s) == {s[i] : i \in DOMAIN s}

\* the presentation files of a tree, each as <<directory, name>>
SrcPptx(t) ==
    UNION { {<<d, n>> : n \in {m \in Range(t[d].files) : IsPptx(m)}} : d \in DOMAIN t }

(* --------------------------- the environment -------------------------- *)

\* what one converter process does: its exit status, and whether it writes
\* the PDF (subprocess.run(..., check=True) raises on a non-zero status)
ConverterOutcomes == [exit : {0, 1}, writes : BOOLEAN]

\* what one protect() call meets: success, a failure before anything is
\* written (pikepdf.open), or a failure while the file is rewritten (save)
ProtectOutcomes == {"ok", "open_error", "save_error"}

\* the values config.yaml may give owner_password
OwnerPasswords == {"s3cret", "hunter2"}

\* the owner password an earlier run was configured with
EarlierPassword == "0ld"

(* ------------------------------- Init --------------------------------- *)

\* the per-run state of a process that has just been started
Fresh ==
    /\ pc = "start"
    /\ stack = <<>>
    /\ root = <<>>
    /\ files = <<>>
    /\ converted_files = <<>>
    /\ idx = 0
    /\ exitStatus = -1
    /\ convLog = <<>>
    /\ protLog = <<>>
    /\ afterConvert = <<>>

\* A first run or a later one: the destination may hold PDFs an earlier run
\* of the program produced and protected (under the password configured
\* then); the converter is unconstrained.
Init ==
    /\ tree \in Trees
    /\ owner_password \in OwnerPasswords
    /\ plan = [f \in SrcPptx(tree) |-> ConverterOutcomes]
    /\ \E stale \in SUBSET {OnDisk(TargetFile(f[1], f[2])) : f \in SrcPptx(tree)} :
         /\ destFiles = [p \in stale |-> Encryption(EarlierPassword)]
         /\ destDirs = UNION {MakeDirs({}, p.dir) : p \in stale}
    /\ Fresh
    /\ run = 1
    /\ firstRun = [dirs |-> {}, files |-> {}]

\* Repeated runs against an unchanged source tree with a converter that
\* behaves the same way every time: the destination does not exist at first.
InitTwice ==
    /\ tree \in Trees
    /\ owner_password = "s3cret"
    /\ plan \in [SrcPptx(tree) -> {{o} : o \in ConverterOutcomes}]
    /\ destFiles = <<>>
    /\ destDirs = {}
    /\ Fresh
    /\ run = 1
    /\ firstRun = [dirs |-> {}, files |-> {}]

(* ------------------------------ App.run ------------------------------- *)

\* run(): Path(dist_dir).mkdir(parents=True, exist_ok=True), then convert()
\* starts: converted_files = [] and os.walk(self.source_dir) begins at the top
RunStart ==
    /\ pc = "start"
    /\ destDirs' = MakeDirs(destDirs, DistDir)
    /\ converted_files' = <<>>
    /\ stack' = << <<>> >>
    /\ pc' = "walk"
    /\ UNCHANGED <<tree, owner_password, plan, destFiles, root, files, idx,
                   exitStatus, convLog, protLog, afterConvert, run, firstRun>>

(* ------------------------ PDFConverter.convert ------------------------ *)

\* One iteration of the os.walk loop up to the file loop: the next directory
\* is listed (top-down, its subdirectories are walked before its siblings)
\* and its mirror is created under the destination root.
WalkDir ==
    /\ pc = "walk"
    /\ stack # <<>>
    /\ LET d == Head(stack)
       IN  /\ root' = d
           /\ files' = tree[d].files
           /\ stack' = [i \in 1..Len(tree[d].dirs) |-> Append(d, tree[d].dirs[i])] \o Tail(stack)
           /\ destDirs' = MakeDirs(destDirs, TargetDir(d))
    /\ pc' = "files"
    /\ UNCHANGED <<tree, owner_password, plan, destFiles, converted_files, idx,
                   exitStatus, convLog, protLog, afterConvert, run, firstRun>>

\* the file loop is over for this directory
NextDir ==
    /\ pc = "files"
    /\ files = <<>>
    /\ pc' = "walk"
    /\ UNCHANGED <<tree, owner_password, plan, destDirs, destFiles, stack, root,
                   files, converted_files, idx, exitStatus, convLog, protLog,
                   afterConvert, run, firstRun>>

\* a file that does not end in ".pptx" is passed over
SkipFile ==
    /\ pc = "files"
    /\ files # <<>>
    /\ ~IsPptx(Head(files))
    /\ files' = Tail(files)
    /\ UNCHANGED <<tree, owner_password, plan, destDirs, destFiles, pc, stack,
                   root, converted_files, idx, exitStatus, convLog, protLog,
                   afterConvert, run, firstRun>>

\* the disk after the converter process has run
AfterConverter(disk, outcome, target_file) ==
    IF outcome.writes
    THEN [p \in DOMAIN disk \cup {OnDisk(target_file)} |->
            IF p = OnDisk(target_file) THEN Plain ELSE disk[p]]
    ELSE disk

\* (a variant that trusts the exit status alone)
ConvertResultUnchecked(exit, disk, target_file) ==
    IF exit = 0 THEN <<target_file>> ELSE <<>>

\* _convert_file's return value, <<>> for None: the target path if the
\* process exited with status zero and the target is a file by then
ConvertResult(exit, disk, target_file) ==
    IF exit = 0
    THEN IF IsFile(disk, target_file) THEN <<target_file>> ELSE <<>>
    ELSE <<>>

\* if file.endswith(".pptx"): pdf_path = self._convert_file(...);
\* if pdf_path: converted_files.append(pdf_path)
ConvertFile ==
    /\ pc = "files"
    /\ files # <<>>
    /\ IsPptx(Head(files))
    /\ \E o \in ConverterOutcomes :
         LET file == Head(files)
             target_file == TargetFile(root, file)
             disk == AfterConverter(destFiles, o, target_file)
             pdf_path == ConvertResult(o.exit, disk, target_file)
         IN  /\ o \in plan[<<root, file>>]
             /\ destFiles' = disk
             /\ converted_files' = converted_files \o pdf_path
             /\ convLog' = Append(convLog,
                   [dir |-> root, file |-> file, target |-> target_file,
                    dirExisted |-> Resolve(TargetDir(root)) \in destDirs,
                    exit |-> o.exit,
                    present |-> OnDisk(target_file) \in DOMAIN disk,
                    overwrote |-> o.writes /\ \E i \in DOMAIN convLog :
                        /\ convLog[i].written
                        /\ OnDisk(convLog[i].target) = OnDisk(target_file),
                    written |-> o.writes,
                    appended |-> pdf_path # <<>>])
    /\ files' = Tail(files)
    /\ UNCHANGED <<tree, owner_password, plan, destDirs, pc, stack, root, idx,
                   exitStatus, protLog, afterConvert, run, firstRun>>

\* os.walk is exhausted: convert() returns the list and run() enters its loop
ConvertReturn ==
    /\ pc = "walk"
    /\ stack = <<>>
    /\ pc' = "protect"
    /\ idx' = 1
    /\ afterConvert' = destFiles
    /\ UNCHANGED <<tree, owner_password, plan, destDirs, destFiles, stack, root,
                   files, converted_files, exitStatus, convLog, protLog, run,
                   firstRun>>

(* ------------------------ PDFProtector.protect ------------------------ *)

\* the file after protect(): pdf.save(pdf_path, encryption=...) rewrites it
Protected(pdf, owner) == Encryption(owner)

\* (a variant that walks the list from its end)
NextEntryReversed(list, i) == list[Len(list) - i + 1]

\* for pdf_path in converted_files: the entry the loop hands to protect()
NextEntry(list, i) == list[i]

\* (a variant that contains the failure of one protect() call)
UncaughtNever(outcome) == FALSE

\* run() and the script wrap protect() in no try/except: whatever it raises
\* propagates
Uncaught(outcome) == outcome # "ok"

\* (a variant in which the script swallows the exception at top level)
ExitStatusAlwaysZero(raised) == 0

\* the status the interpreter exits with: 1 after an uncaught exception,
\* 0 when the script runs to its end
ExitStatus(raised) == IF raised THEN 1 ELSE 0

\* One iteration of run()'s loop.  An exception of protect() leaves run()
\* and the script, and the process ends.
Protect ==
    /\ pc = "protect"
    /\ idx <= Len(converted_files)
    /\ \E o \in ProtectOutcomes :
         LET pdf_path == NextEntry(converted_files, idx)
             p == OnDisk(pdf_path)
         IN  /\ o = "ok" => destFiles[p].valid
             /\ destFiles' =
                  CASE o = "ok" -> [destFiles EXCEPT ![p] = Protected(@, owner_password)]
                    [] o = "open_error" -> destFiles
                    [] o = "save_error" -> [destFiles EXCEPT ![p] = Damaged]
             /\ protLog' = Append(protLog, [path |-> pdf_path, ok |-> o = "ok"])
             /\ IF Uncaught(o)
                THEN /\ pc' = "exited"
                     /\ exitStatus' = ExitStatus(TRUE)
                     /\ UNCHANGED idx
                ELSE /\ idx' = idx + 1
                     /\ UNCHANGED <<pc, exitStatus>>
    /\ UNCHANGED <<tree, owner_password, plan, destDirs, stack, root, files,
                   converted_files, convLog, afterConvert, run, firstRun>>

\* the loop is over: run() returns and the script ends
RunReturn ==
    /\ pc = "protect"
    /\ idx > Len(converted_files)
    /\ pc' = "exited"
    /\ exitStatus' = ExitStatus(FALSE)
    /\ UNCHANGED <<tree, owner_password, plan, destDirs, destFiles, stack, root,
                   files, converted_files, idx, convLog, protLog, afterConvert,
                   run, firstRun>>

\* the program is started again on the same source tree and configuration
Restart ==
    /\ pc = "exited"
    /\ run < MaxRuns
    /\ run' = run + 1
    /\ firstRun' = IF run = 1
                   THEN [dirs |-> destDirs, files |-> DOMAIN destFiles]
                   ELSE firstRun
    /\ pc' = "start"
    /\ stack' = <<>>
    /\ root' = <<>>
    /\ files' = <<>>
    /\ converted_files' = <<>>
    /\ idx' = 0
    /\ exitStatus' = -1
    /\ convLog' = <<>>
    /\ protLog' = <<>>
    /\ afterConvert' = <<>>
    /\ UNCHANGED <<tree, owner_password, plan, destDirs, destFiles>>

(* --------------------------- specifications --------------------------- *)

Next ==
    \/ RunStart
    \/ WalkDir
    \/ NextDir
    \/ SkipFile
    \/ ConvertFile
    \/ ConvertReturn
    \/ Protect
    \/ RunReturn

Spec == Init /\ [][Next]_vars

NextTwice == Next \/ Restart

SpecTwice == InitTwice /\ [][NextTwice]_vars

(* ------------------------------ properties ---------------------------- *)

\* convert() has returned
ConvertDone == pc \in {"protect", "exited"}

\* the source files handed to the converter so far in this run
Submitted == {<<convLog[i].dir, convLog[i].file>> : i \in DOMAIN convLog}

\* every presentation file of the tree was handed to the converter, once
AllSubmitted ==
    /\ Submitted = SrcPptx(tree)
    /\ Len(convLog) = Cardinality(SrcPptx(tree))

IsAppended(r) == r.appended

\* the targets of the calls that appended, in call order
AppendedTargets ==
    LET hits == SelectSeq(convLog, IsAppended)
    IN  [i \in DOMAIN hits |-> hits[i].target]

\* the paths protect() was called with, in call order
ProtectedPaths == [i \in DOMAIN protLog |-> protLog[i].path]

\* C1: a _convert_file call appends its destination path only if the
\* converter exited with status zero and the destination file was on disk
\* right after the process returned; a zero status with the file absent
\* appends nothing; the result list holds exactly the appended paths.
C1_ListedOnlyIfExitZeroAndPresent ==
    /\ \A i \in DOMAIN convLog :
         /\ convLog[i].appended => convLog[i].exit = 0 /\ convLog[i].present
         /\ (convLog[i].exit = 0 /\ ~convLog[i].present) => ~convLog[i].appended
    /\ converted_files = AppendedTargets

C1_Witness ==
    /\ pc = "exited"
    /\ \E i, j \in DOMAIN convLog :
         /\ convLog[i].exit = 0 /\ ~convLog[i].present /\ ~convLog[i].appended
         /\ convLog[j].appended

\* C2: when the converter exits non-zero for a file, that file's destination
\* path is absent from the result list (even if a file exists at that path),
\* and convert() goes on: every presentation file of the tree is submitted.
C2_NonZeroExitPathAbsent ==
    /\ \A i \in DOMAIN convLog :
         convLog[i].exit # 0 => convLog[i].target \notin Range(converted_files)
    /\ ConvertDone => AllSubmitted

\* C3: protect() is called with the entries of the list convert() returned,
\* in list order, one call per entry, all of them once run() returns; and no
\* call is made before convert() has handled every file of the source tree.
C3_ProtectOncePerEntryAfterConvert ==
    /\ Len(protLog) <= Len(converted_files)
    /\ ProtectedPaths = SubSeq(converted_files, 1, Len(protLog))
    /\ (pc = "exited" /\ \A i \in DOMAIN protLog : protLog[i].ok)
          => Len(protLog) = Len(converted_files)
    /\ protLog # <<>> =>
          /\ ConvertDone
          /\ stack = <<>> /\ files = <<>>
          /\ AllSubmitted
          /\ converted_files = AppendedTargets

C3_Witness ==
    /\ pc = "exited"
    /\ exitStatus = 0
    /\ Len(protLog) = 2
    /\ protLog[1].path # protLog[2].path

\* the content of the file a recorded path names
Content(path) == destFiles[OnDisk(path)]

\* the positions of the result list after position k
Later(k) == (k + 1)..Len(converted_files)

\* C4 as stated: a failure of protect() on the k-th entry leaves run(); the
\* entries after k stay unencrypted on disk and the entries before k stay
\* protected; conversion failures never stop the processing of later files.
C4_LaterEntriesStayUnencrypted ==
    /\ \A k \in DOMAIN protLog :
         ~protLog[k].ok =>
            /\ pc = "exited" /\ k = Len(protLog)
            /\ \A i \in Later(k) : ~Content(converted_files[i]).encrypted
            /\ \A i \in 1..(k - 1) :
                 Content(converted_files[i]) = Encryption(owner_password)
    /\ ConvertDone => AllSubmitted

\* C4 amended: a failure of protect() on the k-th entry leaves run(): it is
\* the last protect() call of the run and the process has ended, protect()
\* succeeded on every entry before k, and a later entry whose path is not
\* among the first k is on disk as convert() left it (encrypted or not);
\* an entry before k stays protected unless the failing entry names the same
\* path; conversion failures never stop the processing of later files.
C4_FailureEndsProtection ==
    /\ \A k \in DOMAIN protLog :
         ~protLog[k].ok =>
            /\ pc = "exited" /\ exitStatus # 0 /\ k = Len(protLog)
            /\ \A i \in 1..(k - 1) : protLog[i].ok
            /\ ProtectedPaths = SubSeq(converted_files, 1, k)
            /\ \A i \in Later(k) :
                 converted_files[i] \notin Range(SubSeq(converted_files, 1, k))
                    => Content(converted_files[i]) = afterConvert[OnDisk(converted_files[i])]
            /\ \A i \in 1..(k - 1) :
                 converted_files[i] # converted_files[k]
                    => Content(converted_files[i]) = Encryption(owner_password)
    /\ ConvertDone => AllSubmitted

\* protect() failed on the first of two entries, after a conversion failure
C4_Witness ==
    /\ Len(converted_files) = 2
    /\ converted_files[1] # converted_files[2]
    /\ Len(protLog) = 1
    /\ ~protLog[1].ok
    /\ Content(converted_files[2]).encrypted

\* C5 as stated: the process exits with status 0 whatever happened to the
\* individual conversions and protections.
C5_ExitStatusAlwaysZero == pc = "exited" => exitStatus = 0

\* C5 amended: the process exits with status 0 exactly when no protect()
\* call failed, whatever the conversions did; a failed protect() ends it
\* with status 1.
C5_ExitZeroIffNoProtectFailure ==
    pc = "exited" =>
       /\ exitStatus \in {0, 1}
       /\ exitStatus = 0 <=> \A i \in DOMAIN protLog : protLog[i].ok

\* exit status 0 although a conversion failed both ways
C5_Witness ==
    /\ pc = "exited"
    /\ exitStatus = 0
    /\ \E i, j \in DOMAIN convLog :
         /\ convLog[i].exit # 0
         /\ convLog[j].exit = 0 /\ ~convLog[j].appended

\* C6: once convert() has returned, every directory of the source tree has a
\* directory at the same relative path under the destination root, and the
\* mirror of a directory existed whenever the converter was run for one of
\* that directory's files.
C6_EveryDirectoryMirrored ==
    /\ ConvertDone => \A d \in DOMAIN tree : DistDir \o d \in destDirs
    /\ \A i \in DOMAIN convLog :
         /\ convLog[i].dirExisted
         /\ DistDir \o convLog[i].dir \in destDirs

\* a tree two levels deep, with a directory without files and a directory
\* whose only presentation failed to convert
C6_Witness ==
    /\ pc = "exited"
    /\ <<"a", "b">> \in DOMAIN tree
    /\ tree[<<"a">>].files = <<>>
    /\ convLog # <<>>
    /\ \A i \in DOMAIN convLog : convLog[i].dir = <<"a", "b">> /\ ~convLog[i].appended
    /\ DOMAIN destFiles = {}

\* the name with its ".pptx" suffix replaced by ".pdf"
WithPdfExtension(file) == SubSeq(file, 1, Len(file) - Len(PPTX)) \o PDF

\* C7: every file handed to the converter ends in ".pptx", and the path
\* checked and recorded for it is the mirrored directory joined with the
\* name whose ".pptx" is replaced by ".pdf"; the result list holds only such
\* paths.
C7_TargetIsNameWithPdfExtension ==
    /\ \A i \in DOMAIN convLog :
         /\ EndsWith(convLog[i].file, PPTX)
         /\ OnDisk(convLog[i].target) =
               [dir |-> DistDir \o convLog[i].dir,
                name |-> WithPdfExtension(convLog[i].file)]
    /\ \A p \in Range(converted_files) :
         \E f \in SrcPptx(tree) :
            OnDisk(p) = [dir |-> DistDir \o f[1], name |-> WithPdfExtension(f[2])]

\* C8: when run() returns without a protection error, every file of the
\* result list is a valid PDF encrypted under the configured owner password,
\* with no user password and with the seven permissions denied; the granted
\* set is the same whatever the file and the configuration.
C8_ListedFilesProtected ==
    (pc = "exited" /\ \A i \in DOMAIN protLog : protLog[i].ok) =>
       \A p \in Range(converted_files) :
          /\ Content(p).valid
          /\ Content(p).encrypted
          /\ Content(p).owner = owner_password
          /\ Content(p).user = ""
          /\ Content(p).allow \cap Denied = {}
          /\ Content(p).allow = {"accessibility"}

\* two files protected, one of them left over from an earlier run
C8_Witness ==
    /\ pc = "exited"
    /\ exitStatus = 0
    /\ Len(converted_files) = 2
    /\ converted_files[1] # converted_files[2]
    /\ \E i \in DOMAIN convLog : convLog[i].appended /\ ~convLog[i].written

\* C9: a later run against the unchanged source tree, the converter behaving
\* as before, leaves the destination directories and files the first run
\* left: nothing is added and nothing is missing; it hands every
\* presentation file to the converter again and protects every listed file
\* again.
C9_SecondRunSameDestination ==
    run >= 2 =>
       /\ destDirs \subseteq firstRun.dirs
       /\ DOMAIN destFiles \subseteq firstRun.files
       /\ pc = "exited" =>
             /\ destDirs = firstRun.dirs
             /\ DOMAIN destFiles = firstRun.files
       /\ ConvertDone => AllSubmitted
       /\ (pc = "exited" /\ \A i \in DOMAIN protLog : protLog[i].ok)
             => ProtectedPaths = converted_files

\* a second run that converted and protected two files again
C9_Witness ==
    /\ run = 2
    /\ pc = "exited"
    /\ exitStatus = 0
    /\ Len(protLog) = 2
    /\ Cardinality(firstRun.files) = 2
    /\ \A i \in DOMAIN convLog : convLog[i].written

\* C10: two distinct source files converted in a run never have the same
\* destination path, so the result list holds no path twice, no conversion
\* overwrites the output of another and no file is protected twice.
C10_DestinationsDistinct ==
    /\ \A i, j \in DOMAIN convLog :
         i # j => OnDisk(convLog[i].target) # OnDisk(convLog[j].target)
    /\ \A i, j \in DOMAIN converted_files :
         i # j => converted_files[i] # converted_files[j]
    /\ \A i \in DOMAIN convLog : ~convLog[i].overwrote
    /\ \A i, j \in DOMAIN protLog :
         (i # j /\ protLog[i].ok /\ protLog[j].ok) => protLog[i].path # protLog[j].path

====
